---- MODULE Spec2Model ----
(***************************************************************************)
(* A model of pybind11_stubgen (src/pybind11_stubgen/__init__.py): the     *)
(* command-line driver `main`, the module-level engine state (the visited  *)
(* registry and the FunctionSignature class attributes), the depth-first   *)
(* parse of modules and classes, signature extraction from docstrings, the *)
(* pairwise class reordering and the write step.                           *)
(*                                                                         *)
(* Reflected objects are identity tokens (strings); the reflected object   *)
(* graph is a function from tokens to records holding what `inspect`       *)
(* reports for them.  Text slots (argument lists, return types) are        *)
(* sequences of text chunks whose concatenation is the text; regular       *)
(* expression rewrites act on chunks.  The options --boost-python and      *)
(* --bare-numpy-ndarray are left unset in the modelled command lines.      *)
(***************************************************************************)
EXTENDS Integers, Sequences, FiniteSets, TLC

VARIABLES
    graph,                      \* the reflected object graph of this process
    argv,                       \* the parsed command line (sys_args)
    pc,                         \* main's position
    root_i,                     \* index into sys_args.module_names
    ignore_invalid_signature,   \* FunctionSignature.ignore_invalid_signature
    ignore_invalid_defaultarg,  \* FunctionSignature.ignore_invalid_defaultarg
    signature_downgrade,        \* FunctionSignature.signature_downgrade
    n_invalid_default_values,   \* FunctionSignature.n_invalid_default_values
    n_invalid_signatures,       \* FunctionSignature.n_invalid_signatures
    _visited_objects,           \* the module-level visited registry
    nodes,                      \* the heap of StubsGenerator objects
    stack,                      \* the call stack of parse() activations
    written,                    \* the artifacts written, in order (module nodes)
    parsed_roots,               \* history: roots on which parse() was called
    checks,                     \* history: n_fatal_errors() values main has read
    write_attempts,             \* history: roots on which write() was called
    runs,                       \* how many times main has been invoked
    cls_in,                     \* reorder harness: the discovery order
    cls_out,                    \* reorder harness: the list after the swap loop
    sub_rel,                    \* reorder harness: the issubclass relation
    norm_in,                    \* normalizer harness: the type text given
    norm_out                    \* normalizer harness: the text returned

vars == <<graph, argv, pc, root_i, ignore_invalid_signature,
          ignore_invalid_defaultarg, signature_downgrade,
          n_invalid_default_values, n_invalid_signatures, _visited_objects,
          nodes, stack, written, parsed_roots, checks, write_attempts, runs,
          cls_in, cls_out, sub_rel, norm_in, norm_out>>

mainVars == <<graph, argv, pc, root_i, ignore_invalid_signature,
              ignore_invalid_defaultarg, signature_downgrade,
              n_invalid_default_values, n_invalid_signatures,
              _visited_objects, nodes, stack, written, parsed_roots, checks,
              write_attempts, runs>>

harnessVars == <<cls_in, cls_out, sub_rel, norm_in, norm_out>>

(***************************************************************************)
(* Bounds of the model.                                                    *)
(***************************************************************************)
\* longest type text given to the normalizer harness, in pieces
MaxPieces == 3
\* longest list of requested root modules
MaxRoots == 2
\* deepest stack of parse() activations the model follows
MaxDepth == 8
\* largest class list given to the reorder harness
MaxClasses == 4
\* invocations of main in one process (the re-invocation specification)
MaxRuns == 2

(***************************************************************************)
(* Sequence helpers.                                                       *)
(***************************************************************************)
Range(s) == {s[i] : i \in 1..Len(s)}

Last(s) == s[Len(s)]

Front(s) == SubSeq(s, 1, Len(s) - 1)

\* all sequences of length 1..n over S
RECURSIVE SeqsUpTo(_, _)
SeqsUpTo(S, n) ==
    IF n = 0 THEN {}
    ELSE LET shorter == SeqsUpTo(S, n - 1)
         IN  {<<x>> : x \in S} \cup shorter
             \cup {Append(s, x) : s \in {t \in shorter : Len(t) = n - 1}, x \in S}

(***************************************************************************)
(* Text.  A text slot is a sequence of chunks; ChunkOrder lists the chunks *)
(* of the model in the order Python's string comparison gives them.        *)
(***************************************************************************)
ChunkOrder ==
    <<"*args, **kwargs", ", q: A = ", ", v: int", "...",
      "<m.A object at 0x7f>", "<m.E.V: 1>", "E.V", "a: A", "a: float",
      "a: int", "a: m.A", "e: E = ", "l: List[int]", "l: typing.List[int]",
      "l: typing.typing.List[int]", "m.E.V", "q: A = ", "self", "self: A",
      "self: B", "self: C", "self: K", "self: Outer", "self: X", "self: k.K",
      "self: m.A", "self: m.B", "self: m.C", "self: m.Outer", "self: n.X",
      "v: std::vector<int>", "x: int">>

ChunkRank(c) == CHOOSE i \in 1..Len(ChunkOrder) : ChunkOrder[i] = c

\* s < t for two texts, as Python compares the strings
RECURSIVE TextLess(_, _)
TextLess(s, t) ==
    IF t = <<>> THEN FALSE
    ELSE IF s = <<>> THEN TRUE
    ELSE IF Head(s) = Head(t) THEN TextLess(Tail(s), Tail(t))
    ELSE ChunkRank(Head(s)) < ChunkRank(Head(t))

\* chunks matched by the first alternative of _default_pybind11_repr_re
ObjectReprChunks == {"<m.A object at 0x7f>"}

\* chunks matched by its second alternative, with the text of group "enum"
EnumReprGroup(c) == IF c = "<m.E.V: 1>" THEN "m.E.V" ELSE ""

\* the chunks Python's parser rejects inside `def name(args) -> rtype: ...`
InvalidSyntaxChunks ==
    {"v: std::vector<int>", "<m.A object at 0x7f>", "<m.E.V: 1>",
     "std::string"}

\* ast.parse(function_def_str) raises no SyntaxError
SyntaxOK(args, rtype) ==
    /\ \A i \in 1..Len(args) : args[i] \notin InvalidSyntaxChunks
    /\ rtype \notin InvalidSyntaxChunks

\* a faulty variant of replace_default_pybind11_repr: an enum representation
\* is treated like an object representation
replace_default_pybind11_repr_enum_unsafe(line) ==
    [default_reprs |->
         SelectSeq(line, LAMBDA c : c \in ObjectReprChunks
                                    \/ EnumReprGroup(c) # ""),
     line |-> [i \in 1..Len(line) |->
                 IF line[i] \in ObjectReprChunks \/ EnumReprGroup(line[i]) # ""
                 THEN "..." ELSE line[i]]]

\* replace_default_pybind11_repr: (default_reprs, rewritten line)
replace_default_pybind11_repr(line) ==
    [default_reprs |-> SelectSeq(line, LAMBDA c : c \in ObjectReprChunks),
     line |-> [i \in 1..Len(line) |->
                 IF line[i] \in ObjectReprChunks THEN "..."
                 ELSE IF EnumReprGroup(line[i]) # "" THEN EnumReprGroup(line[i])
                 ELSE line[i]]]

\* re.sub(r"<module_name>\.(\w+)", r"\g<1>", chunk) where it changes the chunk:
\* <<module_name, chunk, result>>
StripTable ==
    {<<"m", "a: m.A", "a: A">>, <<"m", "self: m.A", "self: A">>,
     <<"m", "self: m.B", "self: B">>, <<"m", "self: m.C", "self: C">>,
     <<"m", "self: m.Outer", "self: Outer">>, <<"m", "m.E.V", "E.V">>,
     <<"n", "self: n.X", "self: X">>, <<"k", "self: k.K", "self: K">>}

StripModuleChunk(module_name, c) ==
    IF \E e \in StripTable : e[1] = module_name /\ e[2] = c
    THEN (CHOOSE e \in StripTable : e[1] = module_name /\ e[2] = c)[3]
    ELSE c

StripModuleName(module_name, text) ==
    [i \in 1..Len(text) |-> StripModuleChunk(module_name, text[i])]

\* StubsGenerator.apply_classname_replacements on one chunk
ReplaceClassnamesChunk(c) ==
    IF c = "l: List[int]" THEN "l: typing.List[int]"
    ELSE IF c = "l: typing.List[int]" THEN "l: typing.typing.List[int]"
    ELSE c

apply_classname_replacements(text) ==
    [i \in 1..Len(text) |-> ReplaceClassnamesChunk(text[i])]

(***************************************************************************)
(* The second pattern of GLOBAL_CLASSNAME_REPLACEMENTS on its own.  Here a *)
(* text is a sequence of pieces written one after the other without        *)
(* separator: runs of word characters and punctuation.                     *)
(***************************************************************************)
\* the alternatives of the pattern that are one name
TypingNames ==
    {"Callable", "Dict", "Iterator", "iterator", "Iterable", "iterable",
     "List", "Optional", "Set", "Tuple"}

\* the pieces made of word characters (the character class \w)
WordPieces ==
    TypingNames \cup {"Union", "list", "optional", "dict", "set", "tuple",
                      "union", "callable", "typing", "My", "_x"}

\* (?<!\w) before piece i, and (?!\w) before piece i
NoWordBefore(text, i) == i = 1 \/ text[i - 1] \notin WordPieces

NoWordAt(text, i) == i > Len(text) \/ text[i] \notin WordPieces

\* the pattern matches at piece i: one of the names, or Union followed by
\* the quote character that the last alternative of the pattern holds
NameMatchAt(text, i) ==
    /\ NoWordBefore(text, i)
    /\ text[i] \in TypingNames
    /\ NoWordAt(text, i + 1)

UnionQuoteMatchAt(text, i) ==
    /\ NoWordBefore(text, i)
    /\ text[i] = "Union"
    /\ i < Len(text) /\ text[i + 1] = "'"
    /\ NoWordAt(text, i + 2)

\* str.capitalize on a name the pattern matched
Capitalize(name) ==
    IF name = "iterator" THEN "Iterator"
    ELSE IF name = "iterable" THEN "Iterable"
    ELSE name

\* a faulty variant of replace_typing_types: the name is not capitalized
replace_typing_types_as_is(name) == <<"typing", ".", name>>

\* replace_typing_types: "typing." + match.group('type').capitalize()
replace_typing_types(name) == <<"typing", ".", Capitalize(name)>>

\* pattern.sub(replace_typing_types, text): what each piece of the text
\* becomes; the quote a match has consumed becomes part of that match
TypingSubImages(text) ==
    [i \in 1..Len(text) |->
        IF NameMatchAt(text, i) THEN replace_typing_types(text[i])
        ELSE IF UnionQuoteMatchAt(text, i)
        THEN replace_typing_types(text[i]) \o <<"'">>
        ELSE IF i > 1 /\ UnionQuoteMatchAt(text, i - 1) THEN <<>>
        ELSE <<text[i]>>]

(***************************************************************************)
(* FunctionSignature.                                                      *)
(***************************************************************************)
\* FunctionSignature.n_fatal_errors
n_fatal_errors ==
    (IF ignore_invalid_defaultarg THEN 0 ELSE n_invalid_default_values)
    + (IF ignore_invalid_signature THEN 0 ELSE n_invalid_signatures)

DegradedArgs == <<"*args, **kwargs">>

DegradedRtype == "typing.Any"

\* FunctionSignature.__init__ with validate=True: the object built, and
\* whether each of the two counters is incremented
FunctionSignature_init(name, args, rtype, downgrade) ==
    LET r  == replace_default_pybind11_repr(args)
        ok == SyntaxOK(r.line, rtype)
    IN  [sig |-> IF ~ok /\ downgrade
                 THEN [name |-> name, args |-> DegradedArgs,
                       rtype |-> DegradedRtype]
                 ELSE [name |-> name, args |-> r.line, rtype |-> rtype],
         invalid_default |-> r.default_reprs # <<>>,
         invalid_syntax  |-> ~ok]

\* the lines of a docstring that re.match(signature_regex, line) accepts
MatchedLines(doc) == SelectSeq(doc, LAMBDA l : l.sig)

\* the rewrites applied to every signature of the list after construction:
\* module-name stripping, then the class-name replacements
Rewritten(sig, module_name) ==
    [name  |-> sig.name,
     args  |-> apply_classname_replacements(StripModuleName(module_name, sig.args)),
     rtype |-> ReplaceClassnamesChunk(StripModuleChunk(module_name, sig.rtype))]

\* sorted(list(set(signatures)), key=lambda fs: fs.args): the set's iteration
\* order is not fixed, the sort is stable, so every arrangement of the set
\* that is non-decreasing in args can result
SortedArrangements(S) ==
    {s \in [1..Cardinality(S) -> S] :
        /\ Range(s) = S
        /\ \A i, j \in 1..Cardinality(S) :
              i < j => ~TextLess(s[j].args, s[i].args)}

\* a faulty variant of function_signatures_from_docstring: the set is taken
\* before the module name is stripped and the class names are replaced
function_signatures_from_docstring_set_first(name, doc, module_name, downgrade) ==
    LET lines == MatchedLines(doc)
        made  == [i \in 1..Len(lines) |->
                    FunctionSignature_init(name, lines[i].args,
                                           lines[i].rtype, downgrade)]
        sigs  == {made[i].sig : i \in 1..Len(lines)}
    IN  [signatures |->
             {[i \in 1..Len(s) |-> Rewritten(s[i], module_name)] :
                 s \in {t \in [1..Cardinality(sigs) -> sigs] :
                          /\ Range(t) = sigs
                          /\ \A i, j \in 1..Cardinality(sigs) : i < j =>
                                ~TextLess(Rewritten(t[j], module_name).args,
                                          Rewritten(t[i], module_name).args)}},
         invalid_defaults |->
             Cardinality({i \in 1..Len(lines) : made[i].invalid_default}),
         invalid_signatures |->
             Cardinality({i \in 1..Len(lines) : made[i].invalid_syntax})]

\* StubsGenerator.function_signatures_from_docstring: the lists it can
\* return, and the number of increments of each counter
function_signatures_from_docstring(name, doc, module_name, downgrade) ==
    LET lines == MatchedLines(doc)
        made  == [i \in 1..Len(lines) |->
                    FunctionSignature_init(name, lines[i].args,
                                           lines[i].rtype, downgrade)]
        sigs  == {Rewritten(made[i].sig, module_name) : i \in 1..Len(lines)}
    IN  [signatures |-> SortedArrangements(sigs),
         invalid_defaults |->
             Cardinality({i \in 1..Len(lines) : made[i].invalid_default}),
         invalid_signatures |->
             Cardinality({i \in 1..Len(lines) : made[i].invalid_syntax})]

(***************************************************************************)
(* The reflected object graph: what `inspect` reports for each object.     *)
(***************************************************************************)
\* one (name, member) pair of inspect.getmembers; own: name in __dict__
Mem(name, obj, own) == [name |-> name, obj |-> obj, own |-> own]

\* a module: __name__, __name__.split("."), inspect.getmembers
Mod(name, path, members) ==
    [kind |-> "module", name |-> name, path |-> path, members |-> members]

\* a class: __name__, __module__, type(c) is type, inspect.getmro(c)[1:],
\* inspect.getmembers
Cls(name, module, plain, mro, members) ==
    [kind |-> "class", name |-> name, module |-> module, plain |-> plain,
     mro |-> mro, members |-> members]

\* a routine and the lines of its __doc__
Fn(doc) == [kind |-> "function", doc |-> doc]

\* a property: the lines of fget.__doc__, whether fset is not None, and the
\* lines of fset.__doc__
Prop(fget_doc, has_fset, fset_doc) ==
    [kind |-> "property", fget_doc |-> fget_doc, has_fset |-> has_fset,
     fset_doc |-> fset_doc]

\* any other value: type(v).__module__, type(v).__qualname__, whether
\* is_safe_to_use_repr(v) holds, the lines of repr(v) and whether repr(v) is
\* the default "<module.Type object at 0x...>"; the chunk " at 0x?>" of a
\* line stands for the address the process gave the object
Value(type_module, typename, safe, repr, default_repr) ==
    [kind |-> "value", type_module |-> type_module, typename |-> typename,
     safe |-> safe, repr |-> repr, default_repr |-> default_repr]

\* a string
Val == Value("builtins", "str", TRUE, <<<<"'text'">>>>, FALSE)

\* a docstring line the signature regex matches, and one it does not
Sig(args, rtype) == [sig |-> TRUE, args |-> args, rtype |-> rtype]

Prose == [sig |-> FALSE, args |-> <<>>, rtype |-> ""]

RootClasses ==
    "object" :> Cls("object", "builtins", TRUE, <<>>, <<>>)
    @@ "pybind11_object" :>
         Cls("pybind11_object", "pybind11_builtins", FALSE, <<"object">>, <<>>)

\* a package with a submodule that re-exports its parent, an inheritance
\* chain, an inherited method, an imported module, a plain Python class and
\* a class of the submodule exposed in the package
GraphBasic ==
    RootClasses
    @@ "m" :> Mod("m", <<"m">>,
            <<Mem("A", "m.A", TRUE), Mem("B", "m.B", TRUE),
              Mem("C", "m.C", TRUE), Mem("Py", "m.Py", TRUE),
              Mem("T", "m.s.T", TRUE),
              Mem("__doc__", "m.doc", TRUE), Mem("__name__", "m.name", TRUE),
              Mem("d", "m.d", TRUE),
              Mem("f", "m.f", TRUE), Mem("g", "m.g", TRUE),
              Mem("os", "os", TRUE), Mem("s", "m.s", TRUE),
              Mem("u", "m.u", TRUE), Mem("v", "m.v", TRUE),
              Mem("w", "m.w", TRUE), Mem("z", "m.z", TRUE)>>)
    @@ "m.s" :> Mod("m.s", <<"m", "s">>,
            <<Mem("T", "m.s.T", TRUE), Mem("h", "m.s.h", TRUE),
              Mem("parent", "m", TRUE)>>)
    @@ "os" :> Mod("os", <<"os">>, <<>>)
    @@ "m.A" :> Cls("A", "m", FALSE, <<"m.B", "pybind11_object", "object">>,
            <<Mem("__doc__", "m.A.doc", TRUE),
              Mem("__entries", "m.A.entries", TRUE),
              Mem("__module__", "m.name", TRUE),
              Mem("run", "m.A.run", TRUE),
              Mem("stride", "m.B.stride", TRUE),
              Mem("walk", "m.B.walk", FALSE),
              Mem("x", "m.A.x", TRUE)>>)
    @@ "m.B" :> Cls("B", "m", FALSE, <<"pybind11_object", "object">>,
            <<Mem("stride", "m.B.stride", TRUE),
              Mem("walk", "m.B.walk", TRUE)>>)
    @@ "m.C" :> Cls("C", "m", FALSE, <<"pybind11_object", "object">>,
            <<Mem("make", "m.C.make", TRUE), Mem("turn", "m.C.turn", TRUE)>>)
    @@ "m.Py" :> Cls("Py", "m", TRUE, <<"object">>, <<>>)
    @@ "m.s.T" :> Cls("T", "m.s", FALSE, <<"pybind11_object", "object">>, <<>>)
    @@ "m.f" :> Fn(<<Prose, Sig(<<"v: std::vector<int>">>, "int"),
                     Sig(<<"x: int">>, "int")>>)
    @@ "m.g" :> Fn(<<Sig(<<"q: A = ", "<m.A object at 0x7f>">>, "None"),
                     Sig(<<"e: E = ", "<m.E.V: 1>">>, "None")>>)
    @@ "m.s.h" :> Fn(<<Sig(<<"a: int">>, "int"), Sig(<<"a: float">>, "float"),
                       Sig(<<"a: int">>, "int")>>)
    @@ "m.A.run" :> Fn(<<Sig(<<"self: m.A", ", v: int">>, "None")>>)
    @@ "m.B.walk" :> Fn(<<Sig(<<"self: m.B">>, "None")>>)
    @@ "m.B.stride" :> Fn(<<Sig(<<"self: m.B">>, "None")>>)
    @@ "m.C.make" :> Fn(<<Sig(<<"x: int">>, "C"), Sig(<<"a: float">>, "C")>>)
    @@ "m.C.turn" :> Fn(<<Prose, Sig(<<"self: m.C", ", v: int">>, "None"),
                          Sig(<<"self: m.C">>, "None")>>)
    @@ "m.d" :> Fn(<<Sig(<<"a: m.A">>, "None"), Sig(<<"a: A">>, "None")>>)
    @@ "m.z" :> Fn(<<Sig(<<"x: int">>, "int"), Sig(<<"x: int">>, "float")>>)
    @@ "m.u" :> Value("m", "A", FALSE, <<<<"<m.A object", " at 0x?>">>>>, TRUE)
    @@ "m.w" :> Value("m", "Grid", FALSE,
                      <<<<"Grid(">>, <<"<m.A object", " at 0x?>">>, <<")">>>>,
                      FALSE)
    @@ "m.A.x" :> Prop(<<Sig(<<"self: m.A">>, "int")>>, FALSE, <<>>)
    @@ "m.doc" :> Val @@ "m.name" :> Val @@ "m.v" :> Val
    @@ "m.A.doc" :> Val @@ "m.A.entries" :> Val

\* two modules that import each other, a class exposed under two names, a
\* class that is its own nested member, a class declared in one module and
\* exposed in the other, and a routine exposed under two names
GraphShared ==
    RootClasses
    @@ "m" :> Mod("m", <<"m">>,
            <<Mem("A", "m.A", TRUE), Mem("Alias", "m.A", TRUE),
              Mem("X", "n.X", TRUE), Mem("f", "m.f", TRUE),
              Mem("f2", "m.f", TRUE), Mem("me", "m", TRUE),
              Mem("n", "n", TRUE)>>)
    @@ "n" :> Mod("n", <<"n">>,
            <<Mem("D", "n.D", TRUE), Mem("X", "n.X", TRUE),
              Mem("m", "m", TRUE)>>)
    @@ "m.A" :> Cls("A", "m", FALSE, <<"pybind11_object", "object">>,
            <<Mem("Self", "m.A", TRUE), Mem("run", "m.A.run", TRUE)>>)
    @@ "n.X" :> Cls("X", "n", FALSE, <<"pybind11_object", "object">>,
            <<Mem("go", "n.X.go", TRUE)>>)
    @@ "n.D" :> Cls("D", "n", FALSE, <<"n.X", "pybind11_object", "object">>,
            <<Mem("go", "n.X.go", FALSE)>>)
    @@ "m.f" :> Fn(<<Sig(<<"v: std::vector<int>">>, "int")>>)
    @@ "m.A.run" :> Fn(<<Sig(<<"self: m.A">>, "None")>>)
    @@ "n.X.go" :> Fn(<<Sig(<<"self: n.X", ", q: A = ", "<m.A object at 0x7f>">>,
                           "None")>>)

\* a class whose nested classes are enumerated descendant first, and a
\* second root module holding a class with a read-write property
GraphNested ==
    RootClasses
    @@ "m" :> Mod("m", <<"m">>,
            <<Mem("Outer", "m.Outer", TRUE), Mem("f", "m.f", TRUE)>>)
    @@ "k" :> Mod("k", <<"k">>,
            <<Mem("K", "k.K", TRUE), Mem("g", "k.g", TRUE)>>)
    @@ "m.Outer" :> Cls("Outer", "m", FALSE, <<"pybind11_object", "object">>,
            <<Mem("N1", "m.Outer.N1", TRUE), Mem("N2", "m.Outer.N2", TRUE),
              Mem("pybind11_type", "m.Outer.T", TRUE),
              Mem("q", "m.Outer.q", TRUE)>>)
    @@ "m.Outer.N1" :> Cls("N1", "m", FALSE,
            <<"m.Outer.N2", "pybind11_object", "object">>, <<>>)
    @@ "m.Outer.N2" :> Cls("N2", "m", FALSE, <<"pybind11_object", "object">>,
            <<>>)
    @@ "m.Outer.T" :> Cls("pybind11_type", "m", FALSE, <<"object">>, <<>>)
    @@ "k.K" :> Cls("K", "k", FALSE, <<"pybind11_object", "object">>,
            <<Mem("p", "k.K.p", TRUE), Mem("r", "k.K.r", TRUE)>>)
    @@ "k.K.p" :> Prop(<<Sig(<<"self: k.K">>, "int")>>, TRUE,
                       <<Sig(<<"self: k.K", ", v: int">>, "None")>>)
    @@ "m.Outer.q" :> Prop(<<Sig(<<"self: m.Outer">>, "k.K")>>, FALSE, <<>>)
    @@ "k.K.r" :> Prop(<<Sig(<<"self: k.K">>, "int")>>, FALSE, <<>>)
    @@ "m.f" :> Fn(<<Sig(<<"v: std::vector<int>">>, "std::string"),
                     Sig(<<"e: E = ", "<m.E.V: 1>">>, "int")>>)
    @@ "k.g" :> Fn(<<Sig(<<"x: int">>, "int")>>)

\* the graphs of the model, by name
GraphNames == {"basic", "shared", "nested"}

GraphOf(name) ==
    IF name = "basic" THEN GraphBasic
    ELSE IF name = "shared" THEN GraphShared
    ELSE GraphNested

\* the module names of each graph that a command line can request
Importable(name) ==
    IF name = "basic" THEN {"m", "m.s"}
    ELSE IF name = "shared" THEN {"m", "n"}
    ELSE {"m", "k"}

(***************************************************************************)
(* The tree of StubsGenerator objects.  A node is one generator object;    *)
(* state is "new" until parse() is called on it, "skipped" when parse()    *)
(* returned at the visited check, "building" while parse() runs and        *)
(* "built" when it has returned.                                           *)
(***************************************************************************)
NewNode(kind, obj, name, module_name) ==
    [kind |-> kind, obj |-> obj, name |-> name, module_name |-> module_name,
     state |-> "new", has_doc |-> FALSE,
     submodules |-> <<>>, classes |-> <<>>, functions |-> <<>>,
     properties |-> <<>>, attributes |-> <<>>,
     imported_modules |-> <<>>, imported_classes |-> <<>>,
     signatures |-> <<>>, setter_args |-> <<>>, getter_rtype |-> "",
     base_classes |-> <<>>, involved_modules_names |-> {}]

Frame(node, at, i) == [node |-> node, at |-> at, i |-> i]

\* ClassStubsGenerator and ModuleStubsGenerator blacklists
CLASS_ATTRIBUTES_BLACKLIST ==
    {"__class__", "__module__", "__qualname__", "__dict__", "__weakref__",
     "__annotations__"}

PYBIND11_ATTRIBUTES_BLACKLIST == {"__entries"}

BASE_CLASS_BLACKLIST == {"pybind11_object", "object"}

CLASS_NAME_BLACKLIST == {"pybind11_type"}

MODULE_ATTRIBUTES_BLACKLIST ==
    {"__file__", "__loader__", "__name__", "__package__", "__spec__",
     "__path__", "__cached__", "__builtins__"}

\* name.startswith('__pybind11_module')
StartsWithPybind11Module(name) == name \in {"__pybind11_module_local_v4"}

\* the entries of _visited_objects: a reflected module or class, or an
\* AttributeStubsGenerator object
ObjKey(o) == [obj |-> o, gen |-> 0]

GenKey(n) == [obj |-> "", gen |-> n]

\* a faulty variant of Visited: the registry is never consulted
NeverVisited(x) == FALSE

\* `x in _visited_objects`
Visited(x) == x \in Range(_visited_objects)

\* is_base_member of ClassStubsGenerator.parse: some base has the same
\* object under the same name
is_base_member(g, bases, name, member) ==
    \E b \in 1..Len(bases) :
        \E k \in 1..Len(g[bases[b]].members) :
            /\ g[bases[b]].members[k].name = name
            /\ g[bases[b]].members[k].obj = member

\* the body of the member loop of ModuleStubsGenerator.parse for one member:
\* the heap afterwards, and the node parse() is called on at once (0: none)
ModuleMemberEffect(g, ns, n, mem) ==
    LET self == ns[n]
        m    == g[mem.obj]
        id   == Len(ns) + 1
    IN  IF m.kind = "module"
        THEN IF Front(m.path) = g[self.obj].path
             THEN [nodes |-> [Append(ns, NewNode("module", mem.obj, m.name, m.name))
                                EXCEPT ![n].submodules = Append(@, id)],
                   call |-> 0]
             ELSE [nodes |-> [ns EXCEPT ![n].imported_modules = Append(@, m.name)],
                   call |-> 0]
        ELSE IF m.kind = "function"
        THEN [nodes |-> [Append(ns, NewNode("function", mem.obj, mem.name, self.name))
                           EXCEPT ![n].functions = Append(@, id)],
              call |-> 0]
        ELSE IF m.kind = "class" /\ m.plain
        THEN [nodes |-> ns, call |-> 0]
        ELSE IF m.kind = "class"
        THEN IF m.module = self.name
             THEN IF m.name \notin CLASS_NAME_BLACKLIST
                  THEN [nodes |-> [Append(ns, NewNode("class", mem.obj, m.name, m.module))
                                     EXCEPT ![n].classes = Append(@, id)],
                        call |-> 0]
                  ELSE [nodes |-> ns, call |-> 0]
             ELSE [nodes |-> [Append(ns, NewNode("class", mem.obj, m.name, m.module))
                                EXCEPT ![n].classes = Append(@, id),
                                       ![n].imported_classes = Append(@, mem.name)],
                   call |-> id]
        ELSE IF mem.name = "__doc__"
        THEN [nodes |-> [ns EXCEPT ![n].has_doc = TRUE], call |-> 0]
        ELSE IF mem.name \notin MODULE_ATTRIBUTES_BLACKLIST
        THEN [nodes |-> [Append(ns, NewNode("attribute", mem.obj, mem.name, self.name))
                           EXCEPT ![n].attributes = Append(@, id)],
              call |-> 0]
        ELSE [nodes |-> ns, call |-> 0]

\* the body of the member loop of ClassStubsGenerator.parse for one member
ClassMemberEffect(g, ns, n, mem) ==
    LET self  == ns[n]
        klass == g[self.obj]
        m     == g[mem.obj]
        id    == Len(ns) + 1
        is_pybind11 == \E b \in 1..Len(klass.mro) :
                          g[klass.mro[b]].name = "pybind11_object"
    IN  IF ~mem.own /\ is_base_member(g, klass.mro, mem.name, mem.obj)
        THEN ns
        ELSE IF StartsWithPybind11Module(mem.name)
        THEN ns
        ELSE IF m.kind = "function"
        THEN [Append(ns, NewNode("function", mem.obj, mem.name, klass.module))
                EXCEPT ![n].functions = Append(@, id)]
        ELSE IF mem.name # "__class__" /\ m.kind = "class"
        THEN IF m.name \notin CLASS_NAME_BLACKLIST
             THEN [Append(ns, NewNode("class", mem.obj, m.name, m.module))
                     EXCEPT ![n].classes = Append(@, id)]
             ELSE ns
        ELSE IF m.kind = "property"
        THEN [Append(ns, NewNode("property", mem.obj, mem.name, klass.module))
                EXCEPT ![n].properties = Append(@, id)]
        ELSE IF mem.name = "__doc__"
        THEN [ns EXCEPT ![n].has_doc = TRUE]
        ELSE IF ~(mem.name \in CLASS_ATTRIBUTES_BLACKLIST
                  \/ (is_pybind11 /\ mem.name \in PYBIND11_ATTRIBUTES_BLACKLIST))
        THEN [Append(ns, NewNode("attribute", mem.obj, mem.name, klass.module))
                EXCEPT ![n].attributes = Append(@, id)]
        ELSE ns

\* itertools.chain(...) of the parse loops: submodules, classes, free
\* functions, attributes for a module; classes, methods, properties, fields
\* for a class
Children(node) ==
    IF node.kind = "module"
    THEN node.submodules \o node.classes \o node.functions \o node.attributes
    ELSE node.classes \o node.functions \o node.properties \o node.attributes

(***************************************************************************)
(* The class reordering at the end of ModuleStubsGenerator.parse.  rel is  *)
(* the set of pairs <<a, b>> with a a strict subclass of b, klass maps an  *)
(* entry of the list to its class.  In the loops the list after one        *)
(* iteration is bound to d before the next iteration is taken.             *)
(***************************************************************************)
\* class_ordering(a, b) of ModuleStubsGenerator.parse
class_ordering(a, b, rel) ==
    IF a = b THEN 0
    ELSE IF <<a, b>> \in rel THEN -1
    ELSE IF <<b, a>> \in rel THEN 1
    ELSE 0

Swap(c, i, j) == [c EXCEPT ![i] = c[j], ![j] = c[i]]

\* for j in range(j, len(classes)): swap classes[i], classes[j] when
\* class_ordering(classes[i], classes[j]) < 0
RECURSIVE InnerLoop(_, _, _, _, _)
InnerLoop(c, i, j, klass, rel) ==
    IF j > Len(c) THEN c
    ELSE CHOOSE r \in {InnerLoop(d, i, j + 1, klass, rel) :
                          d \in {IF class_ordering(klass[c[i]], klass[c[j]], rel) < 0
                                 THEN Swap(c, i, j) ELSE c}} : TRUE

\* for i in range(i, len(classes))
RECURSIVE OuterLoop(_, _, _, _)
OuterLoop(c, i, klass, rel) ==
    IF i > Len(c) THEN c
    ELSE CHOOSE r \in {OuterLoop(d, i + 1, klass, rel) :
                          d \in {InnerLoop(c, i, i + 1, klass, rel)}} : TRUE

\* a faulty variant of reorder_classes: only neighbours are compared
RECURSIVE AdjacentLoop(_, _, _, _)
AdjacentLoop(c, i, klass, rel) ==
    IF i >= Len(c) THEN c
    ELSE CHOOSE r \in {AdjacentLoop(d, i + 1, klass, rel) :
                          d \in {IF class_ordering(klass[c[i]], klass[c[i + 1]], rel) < 0
                                 THEN Swap(c, i, i + 1) ELSE c}} : TRUE

reorder_classes_adjacent(c, klass, rel) == AdjacentLoop(c, 1, klass, rel)

\* the two nested loops of ModuleStubsGenerator.parse over self.classes
reorder_classes(c, klass, rel) == OuterLoop(c, 1, klass, rel)

\* issubclass over the classes of a graph, as the set of strict pairs
SubclassPairs(g, objs) ==
    {p \in objs \X objs : p[1] # p[2] /\ p[2] \in Range(g[p[1]].mro)}

(***************************************************************************)
(* The leaf parses and the end of the container parses.                    *)
(***************************************************************************)
\* the first line of a docstring that the property regex matches, as a
\* one-element sequence, or the empty sequence
FirstMatch(doc) ==
    LET ms == MatchedLines(doc) IN IF ms = <<>> THEN <<>> ELSE <<Head(ms)>>

\* StubsGenerator.property_signature_from_docstring: rtype and setter_args
property_signature_from_docstring(prop, module_name) ==
    LET gm == FirstMatch(prop.fget_doc)
        sm == IF prop.has_fset THEN FirstMatch(prop.fset_doc) ELSE <<>>
        getter_rtype == IF gm = <<>> THEN "None"
                        ELSE StripModuleChunk(module_name, gm[1].rtype)
        setter_args  == IF sm = <<>> THEN <<"None">>
                        ELSE <<"self">>
                             \o Tail(StripModuleName(module_name, sm[1].args))
    IN  [rtype |-> ReplaceClassnamesChunk(getter_rtype),
         setter_args |-> apply_classname_replacements(setter_args)]

\* the module names FreeFunctionStubsGenerator.get_involved_modules_names
\* finds in one chunk of a signature: t[:t.rindex(".")] for each dotted name
\* after the last colon of the argument
InvolvedModulesOfChunk(c) ==
    IF c \in {"a: m.A", "self: m.A", "self: m.B", "self: m.C",
              "self: m.Outer"} THEN {"m"}
    ELSE IF c \in {"self: n.X", "n.X"} THEN {"n"}
    ELSE IF c \in {"self: k.K", "k.K"} THEN {"k"}
    ELSE IF c = "m.E.V" THEN {"m.E"}
    ELSE IF c = "E.V" THEN {"E"}
    ELSE IF c \in {"l: typing.List[int]", "typing.Any"} THEN {"typing"}
    ELSE IF c = "l: typing.typing.List[int]" THEN {"typing.typing"}
    ELSE {}

\* FreeFunctionStubsGenerator.get_involved_modules_names
FunctionInvolvedModules(node) ==
    UNION {UNION ({InvolvedModulesOfChunk(node.signatures[k].rtype)}
                  \cup {InvolvedModulesOfChunk(node.signatures[k].args[a]) :
                          a \in 1..Len(node.signatures[k].args)}) :
           k \in 1..Len(node.signatures)}

\* AttributeStubsGenerator.get_involved_modules_names
AttributeInvolvedModules(g, node) ==
    IF g[node.obj].kind = "module" THEN {g[node.obj].name}
    ELSE IF g[node.obj].kind = "value" THEN {g[node.obj].type_module}
    ELSE {"builtins"}

\* the end of ClassStubsGenerator.parse: base_classes and
\* involved_modules_names
ClassFinish(g, ns, n) ==
    LET self  == ns[n]
        klass == g[self.obj]
        bases == SelectSeq(klass.mro,
                           LAMBDA B : /\ g[B].name # klass.name
                                      /\ g[B].name \notin BASE_CLASS_BLACKLIST)
    IN  [ns EXCEPT
           ![n].base_classes = bases,
           ![n].involved_modules_names =
               {g[B].module : B \in Range(bases)}
               \cup UNION {FunctionInvolvedModules(ns[f]) : f \in Range(self.functions)}
               \cup UNION {AttributeInvolvedModules(g, ns[a]) : a \in Range(self.attributes)},
           ![n].state = "built"]

\* the end of ModuleStubsGenerator.parse: the classes are reordered
ModuleFinish(g, ns, n) ==
    LET self  == ns[n]
        klass == [c \in Range(self.classes) |-> ns[c].obj]
        objs  == {ns[c].obj : c \in Range(self.classes)}
    IN  [ns EXCEPT
           ![n].classes = reorder_classes(self.classes, klass,
                                          SubclassPairs(g, objs)),
           ![n].state = "built"]

(***************************************************************************)
(* Rendering and writing.                                                  *)
(***************************************************************************)
\* PropertyStubsGenerator.to_lines raises: the setter branch formats
\* "def {field_name}({args}) -> {rtype}:" without an rtype argument
PropertyToLinesRaises(node) == node.setter_args # <<"None">>

\* ClassStubsGenerator.to_lines raises: a nested class or a property does
RECURSIVE ClassToLinesRaises(_, _)
ClassToLinesRaises(ns, c) ==
    \/ \E k \in Range(ns[c].classes) : ClassToLinesRaises(ns, k)
    \/ \E q \in Range(ns[c].properties) : PropertyToLinesRaises(ns[q])

\* ModuleStubsGenerator.to_lines raises: the rendering of a class does
ModuleToLinesRaises(ns, n) ==
    \E c \in Range(ns[n].classes) : ClassToLinesRaises(ns, c)

\* one rendered line: what it is, the name it declares, its argument or
\* value text, its return type or type name, and what follows the colon
Line(t, name, args, rtype, tail) ==
    [t |-> t, name |-> name, args |-> args, rtype |-> rtype, tail |-> tail]

Marker(t) == Line(t, "", <<>>, "", "")

RECURSIVE Flatten(_)
Flatten(ss) == IF ss = <<>> THEN <<>> ELSE Head(ss) \o Flatten(Tail(ss))

\* sanitize_docstring(member.__doc__) is not empty: remove_signatures leaves
\* the paragraphs that are not signatures
HasDocstring(doc) == \E i \in 1..Len(doc) : ~doc[i].sig

\* a faulty variant of OverloadMarked: two variants are not yet overloads
OverloadMarkedFromThree(signatures) == Len(signatures) > 2

\* `if len(self.signatures) > 1:` of both routine renderers
OverloadMarked(signatures) == Len(signatures) > 1

\* FreeFunctionStubsGenerator.to_lines
FreeFunctionToLines(g, node) ==
    Flatten([k \in 1..Len(node.signatures) |->
        (IF OverloadMarked(node.signatures)
         THEN <<Marker("@typing.overload")>> ELSE <<>>)
        \o <<Line("def", node.signatures[k].name, node.signatures[k].args,
                  node.signatures[k].rtype, "")>>
        \o (IF HasDocstring(g[node.obj].doc) /\ k = 1
            THEN <<Marker("docstring")>> ELSE <<Marker("pass")>>)])

\* args.strip().startswith("self")
StartsWithSelf(args) ==
    /\ args # <<>>
    /\ Head(args) \in {"self", "self: A", "self: B", "self: C", "self: K",
                       "self: Outer", "self: X", "self: k.K", "self: m.A",
                       "self: m.B", "self: m.C", "self: m.Outer", "self: n.X"}

\* ClassMemberStubsGenerator.to_lines
ClassMemberToLines(g, node) ==
    Flatten([k \in 1..Len(node.signatures) |->
        LET sig  == node.signatures[k]
            self == StartsWithSelf(sig.args)
            doc  == HasDocstring(g[node.obj].doc) /\ k = 1
        IN  (IF self THEN <<>> ELSE <<Marker("@staticmethod")>>)
            \o (IF OverloadMarked(node.signatures)
                THEN <<Marker("@typing.overload")>> ELSE <<>>)
            \o <<Line("def", sig.name,
                      IF self THEN <<"self">> \o Tail(sig.args) ELSE sig.args,
                      sig.rtype, IF doc THEN "" ELSE "...")>>
            \o (IF doc THEN <<Marker("docstring")>> ELSE <<>>)])

\* PropertyStubsGenerator.to_lines: `result` when it returns or raises: the
\* getter block, and in the setter branch the setter marker, after which
\* the format of the setter declaration raises (PropertyToLinesRaises)
PropertyToLines(node) ==
    <<Marker("@property"),
      Line("def", node.name, <<"self">>, node.getter_rtype, ""),
      Marker("docstring")>>
    \o (IF node.setter_args # <<"None">>
        THEN <<Line("@setter", node.name, <<>>, "", "")>> ELSE <<>>)

\* repr(self.attr): the address of this process is filled in
ReprAt(line, addr) ==
    [i \in 1..Len(line) |->
        IF line[i] = " at 0x?>" THEN " at 0x" \o addr \o ">" ELSE line[i]]

\* re.sub(r" at 0x[0-9a-fA-F]+>", ">", value)
RemoveAddress(line, addr) ==
    [i \in 1..Len(line) |->
        IF line[i] = " at 0x" \o addr \o ">" THEN ">" ELSE line[i]]

\* StubsGenerator.fully_qualified_name of the type of a value
ValueTypeName(v) ==
    IF v.type_module = "builtins" THEN v.typename
    ELSE v.type_module \o "." \o v.typename

\* AttributeStubsGenerator.to_lines in a process that placed the value at addr
AttributeToLines(g, node, addr) ==
    LET v == g[node.obj]
    IN  IF v.kind = "module"
        THEN <<Line("=", node.name, <<v.name>>, "", "")>>
        ELSE IF v.safe
        THEN <<Line("=", node.name, v.repr[1], "", "")>>
        ELSE IF Len(v.repr) = 1
        THEN <<Line(":", node.name,
                    IF v.default_repr THEN <<>>
                    ELSE RemoveAddress(ReprAt(v.repr[1], addr), addr),
                    ValueTypeName(v), "")>>
        ELSE <<Line(":", node.name, <<>>,
                    "<class '" \o ValueTypeName(v) \o "'>", "")>>
             \o <<Marker("\"\"\"")>>
             \o [i \in 1..Len(v.repr) |->
                    Line("text", "", ReprAt(v.repr[i], addr), "", "")]
             \o <<Marker("\"\"\"")>>

METHODS_BLACKLIST == {"__dir__", "__sizeof__"}

\* getattr(klass, "__qualname__", klass.__name__)
QualName(g, B) ==
    IF B = "m.Outer.N1" THEN "Outer.N1"
    ELSE IF B = "m.Outer.N2" THEN "Outer.N2"
    ELSE g[B].name

\* strip_current_module_name(fully_qualified_name(b), klass.__module__)
BaseClassText(g, B, module_name) ==
    IF g[B].module \in {"builtins", module_name} THEN QualName(g, B)
    ELSE g[B].module \o "." \o QualName(g, B)

\* ClassStubsGenerator.to_lines when none of its parts raises
RECURSIVE ClassToLines(_, _, _, _)
ClassToLines(g, ns, c, addr) ==
    LET self == ns[c]
    IN  <<Line("class", g[self.obj].name,
               [b \in 1..Len(self.base_classes) |->
                   BaseClassText(g, self.base_classes[b], g[self.obj].module)],
               "", "")>>
        \o (IF self.has_doc THEN <<Marker("docstring")>> ELSE <<>>)
        \o Flatten([k \in 1..Len(self.classes) |->
                       ClassToLines(g, ns, self.classes[k], addr)])
        \o Flatten([k \in 1..Len(self.functions) |->
                       IF ns[self.functions[k]].name \in METHODS_BLACKLIST
                       THEN <<>>
                       ELSE ClassMemberToLines(g, ns[self.functions[k]])])
        \o Flatten([k \in 1..Len(self.properties) |->
                       PropertyToLines(ns[self.properties[k]])])
        \o Flatten([k \in 1..Len(self.attributes) |->
                       AttributeToLines(g, ns[self.attributes[k]], addr)])
        \o <<Marker("pass")>>

\* ModuleStubsGenerator.get_involved_modules_names
ModuleInvolvedModules(g, ns, n) ==
    (Range(ns[n].imported_modules)
     \cup UNION {AttributeInvolvedModules(g, ns[a]) : a \in Range(ns[n].attributes)}
     \cup UNION {ns[c].involved_modules_names : c \in Range(ns[n].classes)}
     \cup UNION {FunctionInvolvedModules(ns[f]) : f \in Range(ns[n].functions)})
    \ {"builtins", "typing", ns[n].name}

\* the module names of the model in the order sorted() gives them
ModuleNameOrder ==
    <<"E", "k", "m", "m.E", "m.s", "n", "os", "typing.typing">>

\* sorted(S) for a set of module names
SortedNames(S) == SelectSeq(ModuleNameOrder, LAMBDA x : x \in S)

\* the names `from module import *` binds: the public members
PublicNames(g, module) ==
    LET names == [i \in 1..Len(g[module].members) |-> g[module].members[i].name]
    IN  SelectSeq(names, LAMBDA x : x \notin {"__doc__", "__name__"})

\* ModuleStubsGenerator.to_lines when none of its parts raises
ModuleToLines(g, ns, n, addr) ==
    LET self == ns[n]
        used_modules == SortedNames(ModuleInvolvedModules(g, ns, n))
    IN  (IF self.has_doc THEN <<Marker("docstring")>> ELSE <<>>)
        \o <<Line("import", self.name, <<>>, "", ""),
             Line("import", "typing", <<>>, "", ""),
             Marker(""),
             Line("__all__", "", PublicNames(g, self.obj), "", "")>>
        \o Flatten([k \in 1..Len(self.classes) |->
                       ClassToLines(g, ns, self.classes[k], addr)
                       \o <<Marker("")>>])
        \o Flatten([k \in 1..Len(self.functions) |->
                       FreeFunctionToLines(g, ns[self.functions[k]])
                       \o <<Marker("")>>])
        \o Flatten([k \in 1..Len(self.attributes) |->
                       AttributeToLines(g, ns[self.attributes[k]], addr)])
        \o [k \in 1..Len(used_modules) |->
               Line("import", used_modules[k], <<>>, "", "")]
        \o (IF "numpy" \in Range(used_modules)
            THEN <<Line("=", "_Shape", <<"typing.Tuple[int, ...]">>, "", "")>>
            ELSE <<>>)
        \o <<Marker(""), Marker("")>>

\* ModuleStubsGenerator.write: the module's own artifact, then each
\* submodule's in order; the artifacts written and whether to_lines raised
RECURSIVE WriteSubmodules(_, _, _)
RECURSIVE WriteOutcome(_, _)
WriteOutcome(ns, n) ==
    IF ModuleToLinesRaises(ns, n)
    THEN [files |-> <<>>, raised |-> TRUE]
    ELSE LET rest == WriteSubmodules(ns, ns[n].submodules, 1)
         IN  [files |-> <<n>> \o rest.files, raised |-> rest.raised]

WriteSubmodules(ns, subs, k) ==
    IF k > Len(subs) THEN [files |-> <<>>, raised |-> FALSE]
    ELSE LET one == WriteOutcome(ns, subs[k])
         IN  IF one.raised THEN one
             ELSE LET rest == WriteSubmodules(ns, subs, k + 1)
                  IN  [files |-> one.files \o rest.files,
                       raised |-> rest.raised]

(***************************************************************************)
(* main.                                                                   *)
(***************************************************************************)
IgnoreChoices == {"signature", "defaultarg", "all"}

\* the command lines of the model for one graph
Argvs(gname) ==
    [ignore_invalid : SUBSET IgnoreChoices,
     non_stop : BOOLEAN,
     skip_signature_downgrade : BOOLEAN,
     module_names : SeqsUpTo(Importable(gname), MaxRoots)]

\* a faulty variant of ConfiguredFlags: "all" sets only one switch
ConfiguredFlagsAllOnlySignature(a, cur) ==
    LET ignore_invalid == IF a.non_stop THEN {"all"} ELSE a.ignore_invalid
    IN  [ignore_invalid_signature |->
             cur.ignore_invalid_signature
             \/ "all" \in ignore_invalid \/ "signature" \in ignore_invalid,
         ignore_invalid_defaultarg |->
             cur.ignore_invalid_defaultarg
             \/ ("all" \notin ignore_invalid /\ "defaultarg" \in ignore_invalid),
         signature_downgrade |->
             cur.signature_downgrade /\ ~a.skip_signature_downgrade]

\* the class attributes of FunctionSignature after main has applied the
\* command line a to their current values cur
ConfiguredFlags(a, cur) ==
    LET ignore_invalid == IF a.non_stop THEN {"all"} ELSE a.ignore_invalid
    IN  [ignore_invalid_signature |->
             IF "all" \in ignore_invalid THEN TRUE
             ELSE IF "signature" \in ignore_invalid THEN TRUE
             ELSE cur.ignore_invalid_signature,
         ignore_invalid_defaultarg |->
             IF "all" \in ignore_invalid THEN TRUE
             ELSE IF "defaultarg" \in ignore_invalid THEN TRUE
             ELSE cur.ignore_invalid_defaultarg,
         signature_downgrade |->
             IF a.skip_signature_downgrade THEN FALSE
             ELSE cur.signature_downgrade]

\* a faulty variant of WriteAllowed: the write is not gated
WriteAllowedAlways == TRUE

\* `if FunctionSignature.n_fatal_errors() == 0:` after _module.parse()
WriteAllowed == n_fatal_errors = 0

\* a faulty variant of ExitsWithFailure: the tolerance switches are ignored
ExitsOnAnyDiagnostic == n_invalid_signatures + n_invalid_default_values > 0

\* `if FunctionSignature.n_fatal_errors() > 0: exit(1)`
ExitsWithFailure == n_fatal_errors > 0

Top == stack[Len(stack)]

TopNode == nodes[Top.node]

G == GraphOf(graph)

\* the frame on top of the stack replaced by f
SetTop(f) == [stack EXCEPT ![Len(stack)] = f]

\* the node main is processing: the one its last parse() call was made on
RootNode == Last(parsed_roots).node

SortIdle == cls_in = <<>> /\ cls_out = [done |-> FALSE, list |-> <<>>] /\ sub_rel = {}

NormIdle == norm_in = <<>> /\ norm_out = [done |-> FALSE, images |-> <<>>, list |-> <<>>]

HarnessIdle == SortIdle /\ NormIdle

Init ==
    /\ graph \in GraphNames
    /\ argv \in Argvs(graph)
    /\ pc = "start"
    /\ root_i = 0
    /\ ignore_invalid_signature = FALSE
    /\ ignore_invalid_defaultarg = FALSE
    /\ signature_downgrade = TRUE
    /\ n_invalid_default_values = 0
    /\ n_invalid_signatures = 0
    /\ _visited_objects = <<>>
    /\ nodes = <<>>
    /\ stack = <<>>
    /\ written = <<>>
    /\ parsed_roots = <<>>
    /\ checks = <<>>
    /\ write_attempts = <<>>
    /\ runs = 1
    /\ HarnessIdle

\* main, from the deprecated --non-stop to --skip-signature-downgrade
Configure ==
    /\ pc = "start"
    /\ LET f == ConfiguredFlags(argv,
                  [ignore_invalid_signature |-> ignore_invalid_signature,
                   ignore_invalid_defaultarg |-> ignore_invalid_defaultarg,
                   signature_downgrade |-> signature_downgrade])
       IN  /\ ignore_invalid_signature' = f.ignore_invalid_signature
           /\ ignore_invalid_defaultarg' = f.ignore_invalid_defaultarg
           /\ signature_downgrade' = f.signature_downgrade
    /\ pc' = "loop"
    /\ root_i' = 1
    /\ UNCHANGED <<graph, argv, n_invalid_default_values, n_invalid_signatures,
                   _visited_objects, nodes, stack, written, parsed_roots,
                   checks, write_attempts, runs>>
    /\ UNCHANGED harnessVars

\* _module = ModuleStubsGenerator(_module_name); _module.parse() is called
BeginRoot ==
    /\ pc = "loop"
    /\ root_i <= Len(argv.module_names)
    /\ LET name == argv.module_names[root_i]
           id   == Len(nodes) + 1
       IN  /\ nodes' = Append(nodes, NewNode("module", name, name, name))
           /\ stack' = <<Frame(id, "enter", 0)>>
           /\ parsed_roots' = Append(parsed_roots, [root |-> root_i, node |-> id])
    /\ pc' = "parsing"
    /\ UNCHANGED <<graph, argv, root_i, ignore_invalid_signature,
                   ignore_invalid_defaultarg, signature_downgrade,
                   n_invalid_default_values, n_invalid_signatures,
                   _visited_objects, written, checks, write_attempts, runs>>
    /\ UNCHANGED harnessVars

\* the visited check that opens ModuleStubsGenerator.parse and
\* ClassStubsGenerator.parse
ParseEnter ==
    /\ pc = "parsing" /\ stack # <<>> /\ Top.at = "enter"
    /\ IF Visited(ObjKey(TopNode.obj))
       THEN /\ stack' = Front(stack)
            /\ nodes' = [nodes EXCEPT ![Top.node].state =
                                    IF @ = "new" THEN "skipped" ELSE @]
            /\ UNCHANGED _visited_objects
       ELSE /\ _visited_objects' = Append(_visited_objects, ObjKey(TopNode.obj))
            /\ stack' = SetTop(Frame(Top.node, "members", 1))
            /\ nodes' = [nodes EXCEPT ![Top.node].state = "building"]
    /\ UNCHANGED <<graph, argv, pc, root_i, ignore_invalid_signature,
                   ignore_invalid_defaultarg, signature_downgrade,
                   n_invalid_default_values, n_invalid_signatures, written,
                   parsed_roots, checks, write_attempts, runs>>
    /\ UNCHANGED harnessVars

\* one iteration of `for name, member in inspect.getmembers(self.module)`;
\* a class declared in another module is parsed at once
ModuleMember ==
    /\ pc = "parsing" /\ stack # <<>> /\ Top.at = "members"
    /\ TopNode.kind = "module"
    /\ Top.i <= Len(G[TopNode.obj].members)
    /\ LET e == ModuleMemberEffect(G, nodes, Top.node, G[TopNode.obj].members[Top.i])
           next == Frame(Top.node, "members", Top.i + 1)
       IN  /\ nodes' = e.nodes
           /\ IF e.call = 0
              THEN stack' = SetTop(next)
              ELSE /\ Len(stack) < MaxDepth
                   /\ stack' = Append(SetTop(next), Frame(e.call, "enter", 0))
    /\ UNCHANGED <<graph, argv, pc, root_i, ignore_invalid_signature,
                   ignore_invalid_defaultarg, signature_downgrade,
                   n_invalid_default_values, n_invalid_signatures,
                   _visited_objects, written, parsed_roots, checks,
                   write_attempts, runs>>
    /\ UNCHANGED harnessVars

\* one iteration of `for name, member in inspect.getmembers(self.klass)`
ClassMember ==
    /\ pc = "parsing" /\ stack # <<>> /\ Top.at = "members"
    /\ TopNode.kind = "class"
    /\ Top.i <= Len(G[TopNode.obj].members)
    /\ nodes' = ClassMemberEffect(G, nodes, Top.node, G[TopNode.obj].members[Top.i])
    /\ stack' = SetTop(Frame(Top.node, "members", Top.i + 1))
    /\ UNCHANGED <<graph, argv, pc, root_i, ignore_invalid_signature,
                   ignore_invalid_defaultarg, signature_downgrade,
                   n_invalid_default_values, n_invalid_signatures,
                   _visited_objects, written, parsed_roots, checks,
                   write_attempts, runs>>
    /\ UNCHANGED harnessVars

\* the member loop is exhausted: the loop over the children starts
MembersDone ==
    /\ pc = "parsing" /\ stack # <<>> /\ Top.at = "members"
    /\ Top.i > Len(G[TopNode.obj].members)
    /\ stack' = SetTop(Frame(Top.node, "children", 1))
    /\ UNCHANGED <<graph, argv, pc, root_i, ignore_invalid_signature,
                   ignore_invalid_defaultarg, signature_downgrade,
                   n_invalid_default_values, n_invalid_signatures,
                   _visited_objects, nodes, written, parsed_roots, checks,
                   write_attempts, runs>>
    /\ UNCHANGED harnessVars

\* x.parse() of the children loop on a submodule or a class
CallParse ==
    /\ pc = "parsing" /\ stack # <<>> /\ Top.at = "children"
    /\ Top.i <= Len(Children(TopNode))
    /\ nodes[Children(TopNode)[Top.i]].kind \in {"module", "class"}
    /\ Len(stack) < MaxDepth
    /\ stack' = Append(SetTop(Frame(Top.node, "children", Top.i + 1)),
                       Frame(Children(TopNode)[Top.i], "enter", 0))
    /\ UNCHANGED <<graph, argv, pc, root_i, ignore_invalid_signature,
                   ignore_invalid_defaultarg, signature_downgrade,
                   n_invalid_default_values, n_invalid_signatures,
                   _visited_objects, nodes, written, parsed_roots, checks,
                   write_attempts, runs>>
    /\ UNCHANGED harnessVars

\* FreeFunctionStubsGenerator.parse (inherited by ClassMemberStubsGenerator)
FunctionParse ==
    /\ pc = "parsing" /\ stack # <<>> /\ Top.at = "children"
    /\ Top.i <= Len(Children(TopNode))
    /\ LET c == Children(TopNode)[Top.i]
           r == function_signatures_from_docstring(
                    nodes[c].name, G[nodes[c].obj].doc, nodes[c].module_name,
                    signature_downgrade)
       IN  /\ nodes[c].kind = "function"
           /\ \E sigs \in r.signatures :
                 nodes' = [nodes EXCEPT ![c].signatures = sigs,
                                        ![c].state = "built"]
           /\ n_invalid_default_values' = n_invalid_default_values + r.invalid_defaults
           /\ n_invalid_signatures' = n_invalid_signatures + r.invalid_signatures
    /\ stack' = SetTop(Frame(Top.node, "children", Top.i + 1))
    /\ UNCHANGED <<graph, argv, pc, root_i, ignore_invalid_signature,
                   ignore_invalid_defaultarg, signature_downgrade,
                   _visited_objects, written, parsed_roots, checks,
                   write_attempts, runs>>
    /\ UNCHANGED harnessVars

\* PropertyStubsGenerator.parse
PropertyParse ==
    /\ pc = "parsing" /\ stack # <<>> /\ Top.at = "children"
    /\ Top.i <= Len(Children(TopNode))
    /\ LET c == Children(TopNode)[Top.i]
           r == property_signature_from_docstring(G[nodes[c].obj],
                                                  nodes[c].module_name)
       IN  /\ nodes[c].kind = "property"
           /\ nodes' = [nodes EXCEPT ![c].getter_rtype = r.rtype,
                                     ![c].setter_args = r.setter_args,
                                     ![c].state = "built"]
    /\ stack' = SetTop(Frame(Top.node, "children", Top.i + 1))
    /\ UNCHANGED <<graph, argv, pc, root_i, ignore_invalid_signature,
                   ignore_invalid_defaultarg, signature_downgrade,
                   n_invalid_default_values, n_invalid_signatures,
                   _visited_objects, written, parsed_roots, checks,
                   write_attempts, runs>>
    /\ UNCHANGED harnessVars

\* AttributeStubsGenerator.parse: the generator object itself is registered
AttributeParse ==
    /\ pc = "parsing" /\ stack # <<>> /\ Top.at = "children"
    /\ Top.i <= Len(Children(TopNode))
    /\ LET c == Children(TopNode)[Top.i]
       IN  /\ nodes[c].kind = "attribute"
           /\ IF Visited(GenKey(c))
              THEN UNCHANGED <<_visited_objects, nodes>>
              ELSE /\ _visited_objects' = Append(_visited_objects, GenKey(c))
                   /\ nodes' = [nodes EXCEPT ![c].state = "built"]
    /\ stack' = SetTop(Frame(Top.node, "children", Top.i + 1))
    /\ UNCHANGED <<graph, argv, pc, root_i, ignore_invalid_signature,
                   ignore_invalid_defaultarg, signature_downgrade,
                   n_invalid_default_values, n_invalid_signatures, written,
                   parsed_roots, checks, write_attempts, runs>>
    /\ UNCHANGED harnessVars

\* the children loop is exhausted: the rest of parse() runs and it returns
ParseFinish ==
    /\ pc = "parsing" /\ stack # <<>> /\ Top.at = "children"
    /\ Top.i > Len(Children(TopNode))
    /\ nodes' = IF TopNode.kind = "module"
                THEN ModuleFinish(G, nodes, Top.node)
                ELSE ClassFinish(G, nodes, Top.node)
    /\ stack' = Front(stack)
    /\ UNCHANGED <<graph, argv, pc, root_i, ignore_invalid_signature,
                   ignore_invalid_defaultarg, signature_downgrade,
                   n_invalid_default_values, n_invalid_signatures,
                   _visited_objects, written, parsed_roots, checks,
                   write_attempts, runs>>
    /\ UNCHANGED harnessVars

\* a faulty variant of WriteRoot: rendering the root consumes its list of
\* free functions
WriteRootConsuming ==
    /\ pc = "parsing" /\ stack = <<>>
    /\ WriteAllowed
    /\ ~WriteOutcome(nodes, RootNode).raised
    /\ checks' = Append(checks, [root |-> root_i, fatal |-> n_fatal_errors])
    /\ write_attempts' = Append(write_attempts, root_i)
    /\ written' = written \o WriteOutcome(nodes, RootNode).files
    /\ nodes' = [nodes EXCEPT ![RootNode].functions = <<>>]
    /\ root_i' = root_i + 1
    /\ pc' = "loop"
    /\ UNCHANGED <<graph, argv, ignore_invalid_signature,
                   ignore_invalid_defaultarg, signature_downgrade,
                   n_invalid_default_values, n_invalid_signatures,
                   _visited_objects, stack, parsed_roots, runs>>
    /\ UNCHANGED harnessVars

\* _module.parse() has returned and the fatal count is zero: write() runs to
\* its end
WriteRoot ==
    /\ pc = "parsing" /\ stack = <<>>
    /\ WriteAllowed
    /\ ~WriteOutcome(nodes, RootNode).raised
    /\ checks' = Append(checks, [root |-> root_i, fatal |-> n_fatal_errors])
    /\ write_attempts' = Append(write_attempts, root_i)
    /\ written' = written \o WriteOutcome(nodes, RootNode).files
    /\ root_i' = root_i + 1
    /\ pc' = "loop"
    /\ UNCHANGED <<graph, argv, ignore_invalid_signature,
                   ignore_invalid_defaultarg, signature_downgrade,
                   n_invalid_default_values, n_invalid_signatures,
                   _visited_objects, nodes, stack, parsed_roots, runs>>
    /\ UNCHANGED harnessVars

\* the same, but to_lines raises inside write(): main propagates the
\* exception
WriteRaises ==
    /\ pc = "parsing" /\ stack = <<>>
    /\ WriteAllowed
    /\ WriteOutcome(nodes, RootNode).raised
    /\ checks' = Append(checks, [root |-> root_i, fatal |-> n_fatal_errors])
    /\ write_attempts' = Append(write_attempts, root_i)
    /\ written' = written \o WriteOutcome(nodes, RootNode).files
    /\ pc' = "raised"
    /\ UNCHANGED <<graph, argv, root_i, ignore_invalid_signature,
                   ignore_invalid_defaultarg, signature_downgrade,
                   n_invalid_default_values, n_invalid_signatures,
                   _visited_objects, nodes, stack, parsed_roots, runs>>
    /\ UNCHANGED harnessVars

\* _module.parse() has returned and the fatal count is not zero: nothing is
\* written for this root
SkipWrite ==
    /\ pc = "parsing" /\ stack = <<>>
    /\ ~WriteAllowed
    /\ checks' = Append(checks, [root |-> root_i, fatal |-> n_fatal_errors])
    /\ root_i' = root_i + 1
    /\ pc' = "loop"
    /\ UNCHANGED <<graph, argv, ignore_invalid_signature,
                   ignore_invalid_defaultarg, signature_downgrade,
                   n_invalid_default_values, n_invalid_signatures,
                   _visited_objects, nodes, stack, written, parsed_roots,
                   write_attempts, runs>>
    /\ UNCHANGED harnessVars

\* after the loop over module_names: exit(1) or return
Finish ==
    /\ pc = "loop"
    /\ root_i > Len(argv.module_names)
    /\ checks' = Append(checks, [root |-> 0, fatal |-> n_fatal_errors])
    /\ pc' = IF ExitsWithFailure THEN "exited" ELSE "returned"
    /\ UNCHANGED <<graph, argv, root_i, ignore_invalid_signature,
                   ignore_invalid_defaultarg, signature_downgrade,
                   n_invalid_default_values, n_invalid_signatures,
                   _visited_objects, nodes, stack, written, parsed_roots,
                   write_attempts, runs>>
    /\ UNCHANGED harnessVars

Next ==
    \/ Configure
    \/ BeginRoot
    \/ ParseEnter
    \/ ModuleMember
    \/ ClassMember
    \/ MembersDone
    \/ CallParse
    \/ FunctionParse
    \/ PropertyParse
    \/ AttributeParse
    \/ ParseFinish
    \/ WriteRoot
    \/ WriteRaises
    \/ SkipWrite
    \/ Finish

Spec == Init /\ [][Next]_vars

\* the command lines of the termination specification: the traversal does
\* not read the tolerance switches, so two settings of them are followed
LiveArgvs(gname) ==
    {a \in Argvs(gname) : /\ ~a.non_stop
                          /\ ~a.skip_signature_downgrade
                          /\ a.ignore_invalid \in {{}, {"all"}}}

LiveInit == Init /\ argv \in LiveArgvs(graph)

\* the scheduling of the single thread: a step that can be taken is taken
LiveSpec == LiveInit /\ [][Next]_vars /\ WF_vars(Next)

(***************************************************************************)
(* main invoked again in the same process.  Nothing resets the module      *)
(* globals; the command line is new.                                       *)
(***************************************************************************)
\* the command lines of the re-invocation specification: one root, no
\* deprecated option
Argvs1(gname) ==
    {a \in Argvs(gname) : Len(a.module_names) = 1 /\ ~a.non_stop}

Init2 == Init /\ argv \in Argvs1(graph)

\* main(args) is called after an earlier call has returned, exited or raised
Reinvoke ==
    /\ pc \in {"returned", "exited", "raised"}
    /\ runs < MaxRuns
    /\ runs' = runs + 1
    /\ argv' \in Argvs1(graph)
    /\ pc' = "start"
    /\ root_i' = 0
    /\ parsed_roots' = <<>>
    /\ checks' = <<>>
    /\ write_attempts' = <<>>
    /\ UNCHANGED <<graph, ignore_invalid_signature, ignore_invalid_defaultarg,
                   signature_downgrade, n_invalid_default_values,
                   n_invalid_signatures, _visited_objects, nodes, stack,
                   written>>
    /\ UNCHANGED harnessVars

Next2 ==
    \/ Next
    \/ Reinvoke

SpecTwice == Init2 /\ [][Next2]_vars

(***************************************************************************)
(* The class reordering on its own: every discovery order of up to         *)
(* MaxClasses classes under every subclass relation on them.               *)
(***************************************************************************)
\* the permutations of 1..n
Perms(n) ==
    {s \in [1..n -> 1..n] : \A i, j \in 1..n : i # j => s[i] # s[j]}

\* the transitive closure of a relation
RECURSIVE Closure(_)
Closure(r) ==
    LET more == r \cup {<<p[1], q[2]>> : p, q \in r}
        step == {x \in more : \E p, q \in r : x = p \/ (p[2] = q[1] /\ x = <<p[1], q[2]>>)}
    IN  IF step = r THEN r ELSE Closure(step)

\* the subclass relations on classes 1..n: the closures of the acyclic
\* direct-base relations
SubclassRelations(n) ==
    {Closure(r) : r \in SUBSET {p \in (1..n) \X (1..n) : p[1] < p[2]}}

MainIdle ==
    /\ graph = "basic"
    /\ argv = [ignore_invalid |-> {}, non_stop |-> FALSE,
               skip_signature_downgrade |-> FALSE, module_names |-> <<>>]
    /\ pc = "harness"
    /\ root_i = 0
    /\ ignore_invalid_signature = FALSE
    /\ ignore_invalid_defaultarg = FALSE
    /\ signature_downgrade = TRUE
    /\ n_invalid_default_values = 0
    /\ n_invalid_signatures = 0
    /\ _visited_objects = <<>>
    /\ nodes = <<>>
    /\ stack = <<>>
    /\ written = <<>>
    /\ parsed_roots = <<>>
    /\ checks = <<>>
    /\ write_attempts = <<>>
    /\ runs = 1

SortInit ==
    /\ MainIdle
    /\ \E n \in 0..MaxClasses :
          /\ cls_in \in Perms(n)
          /\ sub_rel \in SubclassRelations(n)
    /\ cls_out = [done |-> FALSE, list |-> <<>>]
    /\ NormIdle

\* the reordering loops run on the discovery order
Reorder ==
    /\ pc = "harness"
    /\ ~cls_out.done
    /\ cls_out' = [done |-> TRUE,
                   list |-> reorder_classes(cls_in,
                                            [c \in Range(cls_in) |-> c],
                                            sub_rel)]
    /\ UNCHANGED <<cls_in, sub_rel, norm_in, norm_out>>
    /\ UNCHANGED mainVars

SortSpec == SortInit /\ [][Reorder]_vars

(***************************************************************************)
(* The typing-names pattern on its own: every text of up to MaxPieces      *)
(* pieces.                                                                 *)
(***************************************************************************)
\* the pieces a text of the harness is made of
NormPieces == WordPieces \cup {"[", ".", "'"}

NormInit ==
    /\ MainIdle
    /\ SortIdle
    /\ norm_in \in SeqsUpTo(NormPieces, MaxPieces)
    /\ norm_out = [done |-> FALSE, images |-> <<>>, list |-> <<>>]

\* the pattern is substituted in the text
Normalize ==
    /\ pc = "harness"
    /\ ~norm_out.done
    /\ norm_in # <<>>
    /\ norm_out' = [done |-> TRUE,
                    images |-> TypingSubImages(norm_in),
                    list |-> Flatten(TypingSubImages(norm_in))]
    /\ UNCHANGED <<cls_in, cls_out, sub_rel, norm_in>>
    /\ UNCHANGED mainVars

NormSpec == NormInit /\ [][Normalize]_vars

(***************************************************************************)
(* Properties.                                                             *)
(***************************************************************************)
Finished == pc \in {"returned", "exited"}

\* the roots a check of the fatal count was recorded for
CheckedRoots == {checks[k].root : k \in 1..Len(checks)} \ {0}

Tolerates(x) ==
    argv.non_stop \/ "all" \in argv.ignore_invalid \/ x \in argv.ignore_invalid

\* C2: once main has applied the command line, n_fatal_errors() is the
\* invalid-default counter unless invalid defaults are tolerated, plus the
\* invalid-signature counter unless invalid signatures are tolerated; each
\* switch is set by its own option only, and "all" (or --non-stop) sets both,
\* so the fatal count is then 0 whatever the counters.
C2_FatalCount ==
    /\ pc # "start" =>
          /\ ignore_invalid_signature = Tolerates("signature")
          /\ ignore_invalid_defaultarg = Tolerates("defaultarg")
          /\ n_fatal_errors =
                (IF Tolerates("defaultarg") THEN 0 ELSE n_invalid_default_values)
                + (IF Tolerates("signature") THEN 0 ELSE n_invalid_signatures)
    /\ pc = "start" =>
          n_fatal_errors = n_invalid_default_values + n_invalid_signatures
    /\ (pc # "start" /\ "all" \in argv.ignore_invalid) => n_fatal_errors = 0

\* C2 witness: "all" was given, both counters are positive and the fatal
\* count is read after a parse.
C2_Witness ==
    /\ "all" \in argv.ignore_invalid
    /\ ~argv.non_stop
    /\ n_invalid_signatures > 0
    /\ n_invalid_default_values > 0
    /\ checks # <<>>
    /\ n_fatal_errors = 0

ChildNodes ==
    UNION {Range(Children(nodes[n])) : n \in 1..Len(nodes)}

\* C4 as stated: every distinct reflected entity has at most one node in the
\* containers of the tree; re-encountering an identity adds no further node.
C4_ExactlyOnce ==
    \A i, j \in ChildNodes : i # j => nodes[i].obj # nodes[j].obj

\* C5: whenever parse() has been called on a root, the traversal returns.
C5_Terminates == (pc = "parsing") ~> (stack = <<>>)

\* C5 witness: parse() is entered on an object whose own parse() is still
\* running below on the stack (a cycle of the reference graph).
C5_Witness ==
    /\ pc = "parsing" /\ stack # <<>>
    /\ Top.at = "enter"
    /\ \E d \in 1..(Len(stack) - 1) :
          /\ nodes[stack[d].node].obj = TopNode.obj
          /\ stack[d].at # "enter"

\* a list of classes in which no entry is followed by one of its strict
\* ancestors
AncestorsFirst(c, klass, rel) ==
    \A i, j \in 1..Len(c) : i < j => <<klass[c[i]], klass[c[j]]>> \notin rel

\* C6: after the swap loops no class of the list is followed by one of its
\* strict ancestors, the list is a rearrangement of the discovery order, and
\* running the loops again changes nothing.
C6_AncestorsFirst ==
    cls_out.done =>
        LET id == [c \in Range(cls_in) |-> c]
        IN  /\ AncestorsFirst(cls_out.list, id, sub_rel)
            /\ Len(cls_out.list) = Len(cls_in)
            /\ Range(cls_out.list) = Range(cls_in)
            /\ reorder_classes(cls_out.list, id, sub_rel) = cls_out.list

\* C6 witness: discovery order [A, B] with A inheriting from B came out as
\* [B, A].
C6_Witness ==
    /\ cls_out.done
    /\ cls_in = <<1, 2>>
    /\ <<1, 2>> \in sub_rel
    /\ cls_out.list = <<2, 1>>

\* C7 as stated: in every built container, module or class, no class of the
\* type list is followed by one of its strict ancestors.
C7_EveryContainerOrdered ==
    \A n \in 1..Len(nodes) :
        (nodes[n].kind \in {"module", "class"} /\ nodes[n].state = "built") =>
            AncestorsFirst(nodes[n].classes,
                           [c \in Range(nodes[n].classes) |-> nodes[c].obj],
                           SubclassPairs(G, {nodes[c].obj : c \in Range(nodes[n].classes)}))

\* the position of x in a list without repetitions
IndexOf(c, x) == CHOOSE i \in 1..Len(c) : c[i] = x

\* C8 as stated: two classes unrelated by the ancestor relation keep their
\* discovery order.
C8_Stable ==
    cls_out.done =>
        \A a, b \in Range(cls_in) :
            (/\ a # b
             /\ <<a, b>> \notin sub_rel
             /\ <<b, a>> \notin sub_rel
             /\ IndexOf(cls_in, a) < IndexOf(cls_in, b))
            => IndexOf(cls_out.list, a) < IndexOf(cls_out.list, b)

\* C9 as stated: every invocation of main starts with an empty visited
\* registry, zero counters and the default flags.
C9_FreshState ==
    pc = "start" =>
        /\ _visited_objects = <<>>
        /\ n_invalid_default_values = 0
        /\ n_invalid_signatures = 0
        /\ ~ignore_invalid_signature
        /\ ~ignore_invalid_defaultarg
        /\ signature_downgrade

\* the signature a matched line becomes when it passes through
\* function_signatures_from_docstring unchanged by validation
Candidate(name, line, module_name) ==
    Rewritten([name |-> name,
               args |-> replace_default_pybind11_repr(line.args).line,
               rtype |-> line.rtype], module_name)

FailsValidation(line) ==
    ~SyntaxOK(replace_default_pybind11_repr(line.args).line, line.rtype)

\* C10 as stated: a matched candidate that fails validation appears in the
\* member's signature list as the degraded form when downgrade is enabled and
\* does not appear at all when downgrade is disabled.
C10_InvalidDroppedOrDegraded ==
    \A n \in 1..Len(nodes) :
        (nodes[n].kind = "function" /\ nodes[n].state = "built") =>
            LET lines == MatchedLines(G[nodes[n].obj].doc)
            IN  \A k \in 1..Len(lines) :
                    FailsValidation(lines[k]) =>
                        IF signature_downgrade
                        THEN [name |-> nodes[n].name, args |-> DegradedArgs,
                              rtype |-> DegradedRtype]
                                 \in Range(nodes[n].signatures)
                        ELSE Candidate(nodes[n].name, lines[k],
                                       nodes[n].module_name)
                                 \notin Range(nodes[n].signatures)


(***************************************************************************)
(* Properties of the rendered stubs.                                       *)
(***************************************************************************)
\* the addresses a process can give an object
Addresses == {"7f10", "7f20"}

\* the lines of the k-th artifact written, in a process that placed the
\* attribute values at addr
FileLines(k, addr) == ModuleToLines(G, nodes, written[k], addr)

\* the declarations of routines among some lines
Declarations(lines) == {i \in 1..Len(lines) : lines[i].t = "def"}

\* C11: every routine declaration emitted into a written stub parses as
\* valid declaration syntax, for every configuration, including with
\* downgrade disabled and after module-name stripping and type normalization
C11_EmittedDeclarationsValid ==
    \A k \in 1..Len(written) : \A a \in Addresses :
        \A i \in Declarations(FileLines(k, a)) :
            SyntaxOK(FileLines(k, a)[i].args, FileLines(k, a)[i].rtype)

\* the sum of f over the nodes in S
RECURSIVE SumOver(_, _)
SumOver(f, S) ==
    IF S = {} THEN 0
    ELSE LET x == CHOOSE y \in S : TRUE IN f[x] + SumOver(f, S \ {x})

\* the routine nodes whose parse() has run
BuiltFunctions ==
    {n \in 1..Len(nodes) : nodes[n].kind = "function" /\ nodes[n].state = "built"}

\* the signature lines of the docstring of routine node n
DocLines(n) == MatchedLines(G[nodes[n].obj].doc)

IsObjectRepr(c) == c \in ObjectReprChunks

IsEnumRepr(c) == EnumReprGroup(c) # ""

\* the signature lines of node n with a default that satisfies unsafe
LinesWithDefault(n, unsafe(_)) ==
    {k \in 1..Len(DocLines(n)) :
        \E i \in 1..Len(DocLines(n)[k].args) : unsafe(DocLines(n)[k].args[i])}

\* no signature of a built routine still holds a representation
NoReprLeft ==
    \A n \in BuiltFunctions : \A k \in 1..Len(nodes[n].signatures) :
        \A i \in 1..Len(nodes[n].signatures[k].args) :
            LET c == nodes[n].signatures[k].args[i]
            IN  ~IsObjectRepr(c) /\ ~IsEnumRepr(c)

\* C12 as stated: every object or enum representation among the defaults is
\* replaced by the ellipsis and each signature holding one is recorded as one
\* InvalidDefaultValue
C12_UnsafeDefaultsReplaced ==
    /\ NoReprLeft
    /\ n_invalid_default_values =
          SumOver([n \in BuiltFunctions |->
                     Cardinality(LinesWithDefault(n,
                         LAMBDA c : IsObjectRepr(c) \/ IsEnumRepr(c)))],
                  BuiltFunctions)
    /\ \A n \in BuiltFunctions : \A k \in 1..Len(nodes[n].signatures) :
          \A i \in 1..Len(nodes[n].signatures[k].args) :
              nodes[n].signatures[k].args[i] \notin {"m.E.V", "E.V"}

\* C12 amended: an object representation is replaced by the ellipsis and
\* the InvalidDefaultValue counter goes up by one for each signature that
\* holds at least one; an enum representation is replaced by the name of
\* the enum member and records nothing
C12_ObjectDefaultsReplaced ==
    /\ NoReprLeft
    /\ n_invalid_default_values =
          SumOver([n \in BuiltFunctions |->
                     Cardinality(LinesWithDefault(n, IsObjectRepr))],
                  BuiltFunctions)
    /\ \A n \in BuiltFunctions : \A k \in 1..Len(DocLines(n)) :
          LET l == DocLines(n)[k]
              expected ==
                  [i \in 1..Len(l.args) |->
                      IF IsObjectRepr(l.args[i]) THEN "..."
                      ELSE IF IsEnumRepr(l.args[i]) THEN EnumReprGroup(l.args[i])
                      ELSE l.args[i]]
          IN  SyntaxOK(expected, l.rtype) =>
                 Rewritten([name |-> nodes[n].name, args |-> expected,
                            rtype |-> l.rtype], nodes[n].module_name)
                     \in Range(nodes[n].signatures)

\* a routine with one object default and one enum default has been built
C12_Witness ==
    \E n \in BuiltFunctions :
        /\ \E k \in 1..Len(nodes[n].signatures) :
               nodes[n].signatures[k].args = <<"q: A = ", "...">>
        /\ \E k \in 1..Len(nodes[n].signatures) :
               nodes[n].signatures[k].args = <<"e: E = ", "E.V">>
        /\ n_invalid_default_values = 1

\* C13: the signature list of a routine holds no two signatures equal on
\* (name, parameter text, return text), is sorted in non-decreasing order of
\* parameter text, and holds exactly the signatures of the matching docstring
\* lines as they are after module-name stripping and type normalization,
\* whatever the order and multiplicity of those lines
C13_DeduplicatedAndSorted ==
    \A n \in BuiltFunctions :
        LET sigs == nodes[n].signatures
        IN  /\ \A i, j \in 1..Len(sigs) : i < j =>
                  /\ sigs[i] # sigs[j]
                  /\ ~TextLess(sigs[j].args, sigs[i].args)
            /\ Range(sigs) =
                  {Rewritten(FunctionSignature_init(nodes[n].name,
                                 DocLines(n)[k].args, DocLines(n)[k].rtype,
                                 signature_downgrade).sig,
                             nodes[n].module_name) :
                     k \in 1..Len(DocLines(n))}

\* a routine with three matching lines, two of them equal, and a routine
\* whose two lines differ only by the module qualification have been built
C13_Witness ==
    /\ \E n \in BuiltFunctions :
          /\ Len(DocLines(n)) = 3
          /\ nodes[n].signatures =
                <<[name |-> "h", args |-> <<"a: float">>, rtype |-> "float"],
                  [name |-> "h", args |-> <<"a: int">>, rtype |-> "int"]>>
    /\ \E n \in BuiltFunctions :
          /\ Len(DocLines(n)) = 2
          /\ nodes[n].signatures =
                <<[name |-> "d", args |-> <<"a: A">>, rtype |-> "None"]>>

\* C14: build plus render is deterministic: the signature list built for a
\* routine is the same whatever order the set of signatures is iterated in,
\* and the lines of every written stub are the same whatever addresses the
\* process gave the attribute values
C14_Deterministic ==
    /\ \A n \in BuiltFunctions :
          function_signatures_from_docstring(
              nodes[n].name, G[nodes[n].obj].doc, nodes[n].module_name,
              signature_downgrade).signatures = {nodes[n].signatures}
    /\ \A k \in 1..Len(written) : \A a, b \in Addresses :
          FileLines(k, a) = FileLines(k, b)

\* the property nodes whose parse() has run
BuiltProperties ==
    {n \in 1..Len(nodes) : nodes[n].kind = "property" /\ nodes[n].state = "built"}

\* C15: rendering a property completes without error; it emits a getter
\* block tagged as a property, and a setter block if and only if the
\* reflected property has a setter
C15_PropertyRendered ==
    /\ pc # "raised"
    /\ \A n \in BuiltProperties :
          LET lines == PropertyToLines(nodes[n])
          IN  /\ ~PropertyToLinesRaises(nodes[n])
              /\ lines[1].t = "@property" /\ lines[2].t = "def"
              /\ G[nodes[n].obj].has_fset
                    <=> \E i \in 1..Len(lines) : lines[i].t = "@setter"

\* routine node n is a method: it is in the methods list of a class node
IsMethod(n) ==
    \E c \in 1..Len(nodes) :
        nodes[c].kind = "class" /\ n \in Range(nodes[c].functions)

\* the lines to_lines gives for routine node n
RoutineLines(n) ==
    IF IsMethod(n) THEN ClassMemberToLines(G, nodes[n])
    ELSE FreeFunctionToLines(G, nodes[n])

\* C16: a routine with more than one signature has every rendered variant
\* preceded by the overload marker, a routine with exactly one has no
\* overload marker; for a method whose first parameter is not the receiver
\* the static-member marker comes with it, before the overload marker
C16_OverloadMarker ==
    \A n \in BuiltFunctions :
        LET lines == RoutineLines(n)
            sigs  == nodes[n].signatures
            defs  == Declarations(lines)
        IN  /\ Cardinality(defs) = Len(sigs)
            /\ Len(sigs) > 1 =>
                  \A i \in defs : i > 1 /\ lines[i - 1].t = "@typing.overload"
            /\ Len(sigs) = 1 =>
                  \A i \in 1..Len(lines) : lines[i].t # "@typing.overload"
            /\ \A i \in 1..Len(lines) :
                  lines[i].t = "@staticmethod" =>
                     /\ IsMethod(n)
                     /\ lines[i + 1].t = (IF Len(sigs) > 1 THEN "@typing.overload"
                                          ELSE "def")
            /\ IsMethod(n) =>
                  Cardinality({i \in 1..Len(lines) : lines[i].t = "@staticmethod"})
                  = Cardinality({k \in 1..Len(sigs) : ~StartsWithSelf(sigs[k].args)})

\* a stub has been written that holds a static method with two variants, a
\* method with two variants and a free function with one
C16_Witness ==
    /\ written # <<>>
    /\ \E n \in BuiltFunctions :
          /\ IsMethod(n) /\ Len(nodes[n].signatures) = 2
          /\ RoutineLines(n)[1].t = "@staticmethod"
          /\ RoutineLines(n)[2].t = "@typing.overload"
    /\ \E n \in BuiltFunctions :
          /\ IsMethod(n) /\ Len(nodes[n].signatures) = 2
          /\ RoutineLines(n)[1].t = "@typing.overload"
    /\ \E n \in BuiltFunctions :
          /\ ~IsMethod(n) /\ Len(nodes[n].signatures) = 1
          /\ RoutineLines(n)[1].t = "def"

\* the module that owns a dotted type name of the model, as a set
OwnerOfTypeText(c) ==
    IF c \in {"m.A", "m.Grid"} THEN {"m"} ELSE InvolvedModulesOfChunk(c)

\* the modules owning the type tokens of some rendered lines: parameter
\* and return types of declarations, ancestors of classes, types of
\* annotated attributes
EmittedTypeModules(lines) ==
    UNION {IF lines[i].t = "def"
           THEN OwnerOfTypeText(lines[i].rtype)
                \cup UNION {OwnerOfTypeText(lines[i].args[a]) :
                               a \in 1..Len(lines[i].args)}
           ELSE IF lines[i].t = "class"
           THEN UNION {OwnerOfTypeText(lines[i].args[a]) :
                          a \in 1..Len(lines[i].args)}
           ELSE IF lines[i].t = ":" /\ lines[i].args = <<>>
                   /\ lines[i + 1].t # "\"\"\""
           THEN OwnerOfTypeText(lines[i].rtype)
           ELSE {} : i \in 1..Len(lines)}

\* C17: the import lines of a written stub name every module that owns a
\* type token emitted in it, and the lines appended for the used modules
\* never name the module itself or the built-ins module
C17_ImportLines ==
    \A k \in 1..Len(written) : \A a \in Addresses :
        LET lines   == FileLines(k, a)
            imports == {lines[i].name : i \in {j \in 1..Len(lines) :
                                                 lines[j].t = "import"}}
        IN  /\ EmittedTypeModules(lines) \ {"builtins"} \subseteq imports
            /\ ModuleInvolvedModules(G, nodes, written[k])
                  \cap {nodes[written[k]].name, "builtins"} = {}

\* the module nodes whose parse() has run to its end
BuiltModules ==
    {n \in 1..Len(nodes) : nodes[n].kind = "module" /\ nodes[n].state = "built"}

\* the entries of a built module's class list for classes declared in
\* another module
ExposedForeignClasses(n) ==
    {c \in Range(nodes[n].classes) : G[nodes[c].obj].module # nodes[n].name}

\* C18: a class declared in another module and exposed in a built module is
\* expanded in that module (its node went through parse, so it carries the
\* ancestors and members), whether or not the class was built earlier in the
\* run, and the owning module is in the exposing module's external
\* references
C18_ForeignClassExpanded ==
    \A n \in BuiltModules : \A c \in ExposedForeignClasses(n) :
        /\ nodes[c].state = "built"
        /\ G[nodes[c].obj].module \in ModuleInvolvedModules(G, nodes, n)

\* the legacy spellings the claim names
LegacyNames ==
    {"iterator", "iterable", "list", "optional", "dict", "set", "tuple",
     "union", "callable"}

\* piece i of the given text is a whole identifier
WholeIdentifier(i) == NoWordBefore(norm_in, i) /\ NoWordAt(norm_in, i + 1)

\* the capitalized generics-namespace spelling of a legacy name
TypingSpelling(name) ==
    <<"typing", ".",
      IF name = "iterator" THEN "Iterator" ELSE IF name = "iterable" THEN "Iterable"
      ELSE IF name = "list" THEN "List" ELSE IF name = "optional" THEN "Optional"
      ELSE IF name = "dict" THEN "Dict" ELSE IF name = "set" THEN "Set"
      ELSE IF name = "tuple" THEN "Tuple" ELSE IF name = "union" THEN "Union"
      ELSE "Callable">>

\* C19 as stated: each legacy lower-case spelling that is a whole identifier
\* is rewritten to typing.<Capitalized>, one that is part of a longer
\* identifier is left unchanged
C19_LegacyNamesRewritten ==
    norm_out.done =>
        \A i \in 1..Len(norm_in) :
            norm_in[i] \in LegacyNames =>
                norm_out.images[i] = IF WholeIdentifier(i)
                                     THEN TypingSpelling(norm_in[i])
                                     ELSE <<norm_in[i]>>

\* C19 amended: as whole identifiers, iterator and iterable (with either
\* case of the first letter) and the capitalized Callable, Dict, List,
\* Optional, Set and Tuple are rewritten to typing.<Capitalized>; the
\* lower-case list, optional, dict, set, tuple, union and callable are left
\* unchanged, and so is Union unless a quote follows it; a name that is part
\* of a longer identifier is left unchanged; the text returned is the pieces
\* in their order
C19_TypingNamesRewritten ==
    norm_out.done =>
        /\ norm_out.list = Flatten(norm_out.images)
        /\ \A i \in 1..Len(norm_in) :
              LET p == norm_in[i]
              IN  /\ (p \in TypingNames /\ WholeIdentifier(i)) =>
                        norm_out.images[i] =
                            <<"typing", ".",
                              IF p \in {"iterator", "iterable"}
                              THEN TypingSpelling(p)[3] ELSE p>>
                  /\ (p \in LegacyNames \ {"iterator", "iterable"}) =>
                        norm_out.images[i] = <<p>>
                  /\ (p \in WordPieces /\ ~WholeIdentifier(i)) =>
                        norm_out.images[i] = <<p>>
                  /\ (p = "Union" /\ ~(i < Len(norm_in) /\ norm_in[i + 1] = "'")) =>
                        norm_out.images[i] = <<p>>

\* a text with a whole legacy iterator and a whole lower-case list has been
\* normalized
C19_Witness ==
    /\ norm_out.done
    /\ norm_in = <<"iterator", "[", "list">>
    /\ norm_out.list = <<"typing", ".", "Iterator", "[", "list">>

\* the class nodes parse() has entered
EnteredClasses ==
    {n \in 1..Len(nodes) : nodes[n].kind = "class"
                           /\ nodes[n].state \in {"building", "built"}}

\* C20: no member list of a class holds a member that is identity-equal to
\* the same-named member visible on one of the class's ancestors, also when
\* the name is in the class's own namespace
C20_InheritedMembersSkipped ==
    \A c \in EnteredClasses :
        \A x \in Range(nodes[c].functions) \cup Range(nodes[c].properties)
                 \cup Range(nodes[c].attributes) :
            ~is_base_member(G, G[nodes[c].obj].mro, nodes[x].name, nodes[x].obj)

\* the state to_lines could reach: the visited registry, both diagnostic
\* counters and the tree
RenderFrame ==
    <<_visited_objects, n_invalid_default_values, n_invalid_signatures, nodes>>

\* C21: the render pass is read-only: a step in which write() calls
\* to_lines leaves the visited registry, both diagnostic counters and every
\* tree node unchanged, and every module rendered in the step renders to the
\* same lines again from the tree the step leaves
C21_RenderReadOnly ==
    [][write_attempts' # write_attempts =>
          /\ RenderFrame' = RenderFrame
          /\ \A k \in (Len(written) + 1)..Len(written') : \A a \in Addresses :
                 ModuleToLines(G, nodes', written'[k], a)
                     = ModuleToLines(G, nodes, written'[k], a)]_vars

\* a module holding classes, free functions and attributes, and its
\* submodule, have been rendered and written
C21_Witness ==
    /\ graph = "basic"
    /\ Len(written) >= 2
    /\ nodes[written[1]].classes # <<>>
    /\ nodes[written[1]].functions # <<>>
    /\ nodes[written[1]].attributes # <<>>
    /\ \E c \in Range(nodes[written[1]].classes) :
           nodes[c].properties # <<>> /\ nodes[c].functions # <<>>

\* apply_classname_replacements on a text of the harness: no such text holds
\* `numpy.ndarray[`, so the first pattern leaves it as it is
NormalizedAgain(text) == Flatten(TypingSubImages(text))

\* C22: the type normalizer is idempotent: normalizing a normalized text
\* returns it unchanged, and a container name already written in the
\* qualified form typing.List is left unchanged
C22_NormalizerIdempotent ==
    norm_out.done =>
        /\ NormalizedAgain(norm_out.list) = norm_out.list
        /\ (norm_in = <<"typing", ".", "List">>) => norm_out.list = norm_in

====
